---- MODULE Spec2Model ----
(***************************************************************************)
(* Model of scripts/generate_image.py: one run of the command-line tool,   *)
(* from the parsed arguments to the process exit.  Byte buffers are        *)
(* sequences of integers 0..255, strings that the program takes apart      *)
(* (prompts, output paths, base64 text) are sequences of one-character     *)
(* strings, and an optional value (Python's None) is a sequence of length  *)
(* 0 or 1.                                                                 *)
(***************************************************************************)
EXTENDS Integers, Sequences, FiniteSets, TLC

(***************************************************************************)
(* Bounds of the model.                                                    *)
(***************************************************************************)
\* longest --ref list that is tried (one more than the program's limit)
MaxRefs == 15
\* longest prompt enumerated character by character
MaxPromptLen == 3
\* longest list of parts in a response candidate
MaxParts == 3
\* number of filler bytes tried after (or in place of) a signature prefix
MaxTail == 1

(***************************************************************************)
(* Program constants.                                                      *)
(***************************************************************************)
\* the hardcoded key of get_api_key, "YOUR_GEMINI_API_KEY_HERE"
PLACEHOLDER ==
    << "Y", "O", "U", "R", "_", "G", "E", "M", "I", "N", "I", "_",
       "A", "P", "I", "_", "K", "E", "Y", "_", "H", "E", "R", "E" >>
\* the limit on reference images in generate_image
MaxReferenceImages == 14
\* the length the slug is cut to in main
SlugLen == 50
MODELS == [pro |-> "gemini-3-pro-image-preview", flash |-> "gemini-2.5-flash-image"]

(***************************************************************************)
(* Python helpers: slicing, optional values, strings as character lists.   *)
(***************************************************************************)
Min(a, b) == IF a < b THEN a ELSE b

\* s[i:j] with 0 <= i <= j: indices past the end are clamped, never an error
Slice(s, i, j) == SubSeq(s, i + 1, Min(j, Len(s)))

\* s[i:]
SliceFrom(s, i) == SubSeq(s, i + 1, Len(s))

None == <<>>
Some(v) == <<v>>
\* Python truthiness of an optional string or list: None and the empty value are false
Truthy(opt) == opt # None /\ opt[1] # <<>>

RECURSIVE Join(_, _)
\* sep.join(ss)
Join(ss, sep) ==
    IF ss = <<>> THEN <<>>
    ELSE IF Len(ss) = 1 THEN ss[1]
    ELSE ss[1] \o sep \o Join(Tail(ss), sep)

(***************************************************************************)
(* detect_image_format: the magic-byte sniffer.                            *)
(***************************************************************************)
EXT_PNG == << ".", "p", "n", "g" >>
EXT_JPG == << ".", "j", "p", "g" >>
EXT_WEBP == << ".", "w", "e", "b", "p" >>
EXT_GIF == << ".", "g", "i", "f" >>

PNG_SIG == <<137, 80, 78, 71, 13, 10, 26, 10>>
JPEG_SIG == <<255, 216>>
RIFF_SIG == <<82, 73, 70, 70>>
WEBP_SIG == <<87, 69, 66, 80>>
GIF87_SIG == <<71, 73, 70, 56, 55, 97>>
GIF89_SIG == <<71, 73, 70, 56, 57, 97>>

\* a sniffer that takes every RIFF container for WEBP
detect_image_format_riff_only(image_bytes) ==
    IF Slice(image_bytes, 0, 8) = PNG_SIG THEN <<"image/png", EXT_PNG>>
    ELSE IF Slice(image_bytes, 0, 2) = JPEG_SIG THEN <<"image/jpeg", EXT_JPG>>
    ELSE IF Slice(image_bytes, 0, 4) = RIFF_SIG THEN <<"image/webp", EXT_WEBP>>
    ELSE IF Slice(image_bytes, 0, 6) \in {GIF87_SIG, GIF89_SIG}
         THEN <<"image/gif", EXT_GIF>>
    ELSE <<"image/png", EXT_PNG>>

detect_image_format(image_bytes) ==
    IF Slice(image_bytes, 0, 8) = PNG_SIG THEN <<"image/png", EXT_PNG>>
    ELSE IF Slice(image_bytes, 0, 2) = JPEG_SIG THEN <<"image/jpeg", EXT_JPG>>
    ELSE IF Slice(image_bytes, 0, 4) = RIFF_SIG /\ Slice(image_bytes, 8, 12) = WEBP_SIG
         THEN <<"image/webp", EXT_WEBP>>
    ELSE IF Slice(image_bytes, 0, 6) \in {GIF87_SIG, GIF89_SIG}
         THEN <<"image/gif", EXT_GIF>>
    ELSE <<"image/png", EXT_PNG>>

get_extension(mime_type) ==
    CASE mime_type = "image/png" -> EXT_PNG
      [] mime_type = "image/jpeg" -> EXT_JPG
      [] mime_type = "image/webp" -> EXT_WEBP
      [] mime_type = "image/gif" -> EXT_GIF
      [] OTHER -> EXT_PNG

(***************************************************************************)
(* base64.b64encode / base64.b64decode over the standard alphabet.         *)
(***************************************************************************)
B64Alphabet ==
    << "A", "B", "C", "D", "E", "F", "G", "H", "I", "J", "K", "L", "M",
       "N", "O", "P", "Q", "R", "S", "T", "U", "V", "W", "X", "Y", "Z",
       "a", "b", "c", "d", "e", "f", "g", "h", "i", "j", "k", "l", "m",
       "n", "o", "p", "q", "r", "s", "t", "u", "v", "w", "x", "y", "z",
       "0", "1", "2", "3", "4", "5", "6", "7", "8", "9", "+", "/" >>

B64Char(n) == B64Alphabet[n + 1]
B64Index(c) == (CHOOSE i \in 1..64 : B64Alphabet[i] = c) - 1

RECURSIVE b64encode(_)
\* three bytes become four characters; a last group of one or two bytes is
\* zero-filled and padded with "="
b64encode(bytes) ==
    IF bytes = <<>> THEN <<>>
    ELSE IF Len(bytes) = 1 THEN
        << B64Char(bytes[1] \div 4), B64Char((bytes[1] % 4) * 16), "=", "=" >>
    ELSE IF Len(bytes) = 2 THEN
        << B64Char(bytes[1] \div 4),
           B64Char((bytes[1] % 4) * 16 + bytes[2] \div 16),
           B64Char((bytes[2] % 16) * 4), "=" >>
    ELSE
        << B64Char(bytes[1] \div 4),
           B64Char((bytes[1] % 4) * 16 + bytes[2] \div 16),
           B64Char((bytes[2] % 16) * 4 + bytes[3] \div 64),
           B64Char(bytes[3] % 64) >> \o b64encode(SubSeq(bytes, 4, Len(bytes)))

\* the text b64decode accepts among the texts the model produces: whole groups
\* of four characters, "=" only at the end of the last group
B64Valid(data) ==
    /\ Len(data) % 4 = 0
    /\ \A i \in 1..Len(data) :
          data[i] = "=" => /\ i > Len(data) - 2
                           /\ \A j \in i..Len(data) : data[j] = "="

RECURSIVE b64decode(_)
b64decode(data) ==
    IF data = <<>> THEN <<>>
    ELSE LET a == B64Index(data[1])
             b == B64Index(data[2])
             first == a * 4 + b \div 16
         IN IF data[3] = "=" THEN << first >>
            ELSE LET c == B64Index(data[3])
                     second == (b % 16) * 16 + c \div 4
                 IN IF data[4] = "=" THEN << first, second >>
                    ELSE << first, second, (c % 4) * 64 + B64Index(data[4]) >>
                         \o b64decode(SubSeq(data, 5, Len(data)))

(***************************************************************************)
(* pathlib.Path on POSIX, as far as main uses it: Path(s), str(p),         *)
(* p.with_suffix(ext), p.parent and p.parent.mkdir(parents=True).  A path  *)
(* is a root ("", "/" or "//") and the list of its components.             *)
(***************************************************************************)
RECURSIVE SplitSlash(_, _)
\* s.split("/"), cur being the component read so far
SplitSlash(s, cur) ==
    IF s = <<>> THEN << cur >>
    ELSE IF Head(s) = "/" THEN << cur >> \o SplitSlash(Tail(s), <<>>)
    ELSE SplitSlash(Tail(s), Append(cur, Head(s)))

RECURSIVE LeadingSlashes(_)
LeadingSlashes(s) ==
    IF s # <<>> /\ Head(s) = "/" THEN 1 + LeadingSlashes(Tail(s)) ELSE 0

KeptComponent(c) == c # <<>> /\ c # << "." >>

\* Path(s): empty and "." components are dropped, exactly two leading slashes
\* are kept as the root "//"
PathOf(s) ==
    [ root |-> IF LeadingSlashes(s) = 2 THEN << "/", "/" >>
               ELSE IF LeadingSlashes(s) >= 1 THEN << "/" >>
               ELSE <<>>,
      parts |-> SelectSeq(SplitSlash(s, <<>>), KeptComponent) ]

\* str(p)
PathStr(p) ==
    IF p.root = <<>> /\ p.parts = <<>> THEN << "." >>
    ELSE p.root \o Join(p.parts, << "/" >>)

\* p / name
PathJoin(p, name) == [ root |-> p.root, parts |-> Append(p.parts, name) ]

\* p.name
PathName(p) == IF p.parts = <<>> THEN <<>> ELSE p.parts[Len(p.parts)]

\* name.rfind("."), 0-based, -1 when there is none
RFindDot(name) ==
    IF \E i \in 1..Len(name) : name[i] = "."
    THEN (CHOOSE i \in 1..Len(name) :
             name[i] = "." /\ \A j \in (i + 1)..Len(name) : name[j] # ".") - 1
    ELSE -1

\* p.suffix: the last dot and what follows it, unless the dot starts or ends the name
PathSuffix(p) ==
    LET name == PathName(p)
        i == RFindDot(name)
    IN IF 0 < i /\ i < Len(name) - 1 THEN SliceFrom(name, i) ELSE <<>>

\* p.with_suffix(ext) for a path with a non-empty name (an empty name raises
\* ValueError, which the caller handles)
with_suffix(p, ext) ==
    LET name == PathName(p)
        old == PathSuffix(p)
        stem == IF old = <<>> THEN name ELSE SubSeq(name, 1, Len(name) - Len(old))
    IN [ root |-> p.root,
         parts |-> SubSeq(p.parts, 1, Len(p.parts) - 1) \o << stem \o ext >> ]

\* p.parent
PathParent(p) ==
    IF p.parts = <<>> THEN p
    ELSE [ root |-> p.root, parts |-> SubSeq(p.parts, 1, Len(p.parts) - 1) ]

\* the directories p.mkdir(parents=True, exist_ok=True) makes sure exist: p and
\* every ancestor of it below the root or the working directory
MkdirTargets(p) ==
    { PathStr([ root |-> p.root, parts |-> SubSeq(p.parts, 1, k) ]) : k \in 1..Len(p.parts) }

(***************************************************************************)
(* Characters and the slug of main.                                        *)
(***************************************************************************)
Lowercase ==
    << "a", "b", "c", "d", "e", "f", "g", "h", "i", "j", "k", "l", "m",
       "n", "o", "p", "q", "r", "s", "t", "u", "v", "w", "x", "y", "z" >>
Uppercase ==
    << "A", "B", "C", "D", "E", "F", "G", "H", "I", "J", "K", "L", "M",
       "N", "O", "P", "Q", "R", "S", "T", "U", "V", "W", "X", "Y", "Z" >>
Digits == { "0", "1", "2", "3", "4", "5", "6", "7", "8", "9" }

IsLetter(c) == \E i \in 1..26 : c = Lowercase[i] \/ c = Uppercase[i]
\* \w of the re module
IsWord(c) == IsLetter(c) \/ c \in Digits \/ c = "_"
\* \s of the re module, and what str.strip() removes
IsSpace(c) == c \in { " ", "\t", "\n" }

\* c.lower()
LowerChar(c) ==
    IF \E i \in 1..26 : c = Uppercase[i]
    THEN Lowercase[CHOOSE i \in 1..26 : c = Uppercase[i]]
    ELSE c

\* [^\w\s-] does not match c
SlugKeeps(c) == IsWord(c) \/ IsSpace(c) \/ c = "-"

RECURSIVE LStrip(_)
LStrip(s) == IF s # <<>> /\ IsSpace(Head(s)) THEN LStrip(Tail(s)) ELSE s

RECURSIVE RStrip(_)
RStrip(s) ==
    IF s # <<>> /\ IsSpace(s[Len(s)]) THEN RStrip(SubSeq(s, 1, Len(s) - 1)) ELSE s

\* s.strip()
Strip(s) == RStrip(LStrip(s))

\* s.lower()
Lower(s) == [ i \in 1..Len(s) |-> LowerChar(s[i]) ]

IsSep(c) == c = "-" \/ IsSpace(c)

RECURSIVE CollapseSeps(_)
\* re.sub(r'[-\s]+', '-', s): every maximal run of hyphens and whitespace
\* becomes one hyphen
CollapseSeps(s) ==
    IF s = <<>> THEN <<>>
    ELSE IF IsSep(Head(s)) THEN
        IF Len(s) > 1 /\ IsSep(s[2]) THEN CollapseSeps(Tail(s))
        ELSE << "-" >> \o CollapseSeps(Tail(s))
    ELSE << Head(s) >> \o CollapseSeps(Tail(s))

UNTITLED == << "u", "n", "t", "i", "t", "l", "e", "d" >>

\* the slug without its fallback for an empty result
Slug_no_fallback(prompt) ==
    Slice(CollapseSeps(Lower(Strip(SelectSeq(prompt, SlugKeeps)))), 0, SlugLen)

\* lines 294-295 of main
Slug(prompt) ==
    LET kept == SelectSeq(prompt, SlugKeeps)
        cut == Slice(CollapseSeps(Lower(Strip(kept))), 0, SlugLen)
    IN IF cut = <<>> THEN UNTITLED ELSE cut

(***************************************************************************)
(* The inputs of a run: the parsed command line (args), the environment,   *)
(* the files on disk and the answer the API will give.                     *)
(***************************************************************************)
KEY1 == << "k", "1" >>
KEY2 == << "k", "2" >>
\* --key, absent or given (empty, the placeholder text, a real key)
ArgKeys == { None, Some(<<>>), Some(PLACEHOLDER), Some(KEY1) }
\* GEMINI_API_KEY, unset or set
EnvKeys == { None, Some(<<>>), Some(PLACEHOLDER), Some(KEY2) }

\* the reference files that exist, with their content
DiskFiles ==
    [ p \in { "style.png", "photo.jpg", "anim.png" } |->
        CASE p = "style.png" -> PNG_SIG \o << 0 >>
          [] p = "photo.jpg" -> JPEG_SIG \o << 255, 224, 0, 16 >>
          [] p = "anim.png" -> GIF89_SIG ]
MISSING == "missing.png"
RefPaths == DOMAIN DiskFiles \cup { MISSING }

\* pat repeated up to n entries
Cycle(pat, n) == [ i \in 1..n |-> pat[((i - 1) % Len(pat)) + 1] ]

\* --ref lists: none, every list of one or two paths, longer lists that repeat
\* one or two existing paths, and lists with a single missing path at any place
RefLists ==
    { None }
    \cup { Some(<< a >>) : a \in RefPaths }
    \cup { Some(<< a, b >>) : a \in RefPaths, b \in RefPaths }
    \cup { Some(Cycle(pat, n)) :
             pat \in { << "style.png" >>, << "style.png", "photo.jpg" >>,
                       << "photo.jpg", "anim.png" >> },
             n \in 3..MaxRefs }
    \cup { Some([ i \in 1..n |-> IF i = k THEN MISSING
                                 ELSE IF i % 2 = 0 THEN "style.png" ELSE "photo.jpg" ]) :
             n \in 3..MaxRefs, k \in 1..MaxRefs }

CUTE_ROBOT == << "A", " ", "c", "u", "t", "e", " ", "r", "o", "b", "o", "t", "!" >>
PromptAlphabet == { "A", "b", "1", "_", "-", " ", "!" }
\* prompts longer than the slug limit
LongPrompts ==
    { Cycle(pat, n) : pat \in { << "a" >>, << "B", " " >>, << "-", "x", "!" >> },
                      n \in { SlugLen - 1, SlugLen, SlugLen + 1, SlugLen + 2 } }
Prompts ==
    UNION { [ 1..n -> PromptAlphabet ] : n \in 0..MaxPromptLen }
    \cup LongPrompts \cup { CUTE_ROBOT }

OutputPrefixes ==
    { <<>>, << ".", "/" >>, << "d", "/" >>, << "/" >>, << "/", "/" >>,
      << ".", ".", "/" >>, << "d", "/", "/", "e", "/", ".", "/" >> }
OutputStems == { << "o" >>, << ".", "h" >>, << "a", ".", "b" >> }
OutputExts ==
    { <<>>, EXT_PNG, EXT_JPG, << ".", "j", "p", "e", "g" >>, EXT_WEBP, EXT_GIF,
      << ".", "t", "x", "t" >>, << ".", "P", "N", "G" >> }
\* --output, absent or given; the last four name no file
Outputs ==
    { None }
    \cup { Some(pre \o stem \o ext) :
             pre \in OutputPrefixes, stem \in OutputStems, ext \in OutputExts }
    \cup { Some(<<>>), Some(<< "." >>), Some(<< ".", "/" >>), Some(<< "/" >>) }

FillBytes == { 0, 255 }
Tails == UNION { [ 1..n -> FillBytes ] : n \in 0..MaxTail }
WEBP_HEADER == RIFF_SIG \o << 36, 0, 0, 0 >> \o WEBP_SIG
FullSigs == { PNG_SIG, JPEG_SIG, WEBP_HEADER, GIF87_SIG, GIF89_SIG }
\* byte buffers around the signatures: every prefix of one (the empty buffer
\* too), every signature with one byte changed, RIFF containers that are not
\* WEBP, each followed by some filler
Buffers ==
    UNION { { Slice(sig, 0, k) \o t : k \in 0..Len(sig), t \in Tails } : sig \in FullSigs }
    \cup UNION { { [ sig EXCEPT ![k] = x ] \o t :
                     k \in 1..Len(sig), x \in FillBytes, t \in Tails } : sig \in FullSigs }
    \cup { RIFF_SIG \o mid \o t :
             mid \in { WEBP_SIG, << 36, 0, 0, 0, 87, 65, 86, 69 >>,
                       << 87, 69, 66, 80, 0, 0, 0, 0 >> },
             t \in Tails }
\* one buffer of each format, an unrecognised one and the empty one
PlainBuffers ==
    { PNG_SIG \o << 0 >>, JPEG_SIG \o << 255 >>, WEBP_HEADER, GIF89_SIG \o << 1 >>,
      << 66, 77 >>, <<>> }

TextPart(t) == [ text |-> Some(t), inlineData |-> None ]
ImagePart(mime, data) ==
    [ text |-> None, inlineData |-> Some([ mimeType |-> mime, data |-> data ]) ]
ReportedMimes == { None, Some("image/png"), Some("image/jpeg") }

\* the parts a response is put together from: text, images (reported rightly,
\* wrongly or not at all) and an image whose base64 text is cut short
PartKinds ==
    { TextPart("Here is your image"),
      ImagePart(Some("image/png"), b64encode(PNG_SIG \o << 0 >>)),
      ImagePart(Some("image/png"), b64encode(JPEG_SIG \o << 255 >>)),
      ImagePart(None, b64encode(GIF89_SIG \o << 1 >>)),
      ImagePart(Some("image/png"), << "i", "V", "B" >>) }
PartLists == UNION { [ 1..n -> PartKinds ] : n \in 0..MaxParts }

Answer(kind, candidates) == [ kind |-> kind, candidates |-> candidates ]
Candidate(parts) == [ parts |-> parts ]
\* an answer with one candidate holding one image
ImageAnswer(mime, bytes) ==
    Answer("json", Some(<< Candidate(<< ImagePart(mime, b64encode(bytes)) >>) >>))
GOOD_PNG == ImageAnswer(Some("image/png"), PNG_SIG \o << 0 >>)

FailedAnswers ==
    { Answer("http_error", None), Answer("url_error", None), Answer("bad_json", None),
      Answer("json", None), Answer("json", Some(<<>>)) }
\* every list of parts as the only candidate, and as the first or second of two
PartAnswers ==
    { Answer("json", Some(<< Candidate(ps) >>)) : ps \in PartLists }
    \cup { Answer("json", Some(<< Candidate(ps), Candidate(qs) >>)) :
             ps \in { pl \in PartLists : Len(pl) <= 1 },
             qs \in { pl \in PartLists : Len(pl) = 1 } }
BufferAnswers == { ImageAnswer(mime, b) : mime \in ReportedMimes, b \in Buffers }
PlainAnswers == { ImageAnswer(mime, b) : mime \in ReportedMimes, b \in PlainBuffers }

Args(prompt, output, key, refs, model) ==
    [ prompt |-> prompt, output |-> output, key |-> key,
      reference_images |-> refs, model |-> model ]
Input(args, env, answer) == [ args |-> args, environ |-> env, api |-> answer ]

\* The runs that are tried.  One input at a time ranges over all its values
\* with the others at plain values, the inputs that meet in one step of the
\* program range together, and a small product covers the rest.
Inputs ==
    \* keys
    { Input(Args(CUTE_ROBOT, None, k, r, "pro"), e, GOOD_PNG) :
        k \in ArgKeys, e \in EnvKeys,
        r \in { None, Some(<< MISSING >>), Some(Cycle(<< "style.png" >>, MaxRefs)) } }
    \* reference lists
    \cup { Input(Args(CUTE_ROBOT, None, k, r, m), None, a) :
             k \in { None, Some(KEY1) }, r \in RefLists, m \in { "pro", "flash" },
             a \in { GOOD_PNG, Answer("url_error", None) } }
    \* answers
    \cup { Input(Args(CUTE_ROBOT, o, Some(KEY1), None, "pro"), None, a) :
             o \in { None, Some(<< ".", "/", "o", ".", "p", "n", "g" >>) },
             a \in FailedAnswers \cup PartAnswers }
    \* image bytes
    \cup { Input(Args(CUTE_ROBOT, o, None, None, "pro"), Some(KEY2), a) :
             o \in { None, Some(<< "o", ".", "p", "n", "g" >>) }, a \in BufferAnswers }
    \* output paths with image formats
    \cup { Input(Args(CUTE_ROBOT, o, Some(KEY1), None, "pro"), None, a) :
             o \in Outputs, a \in PlainAnswers }
    \* prompts
    \cup { Input(Args(p, None, Some(KEY1), None, "pro"), None, a) :
             p \in Prompts,
             a \in { GOOD_PNG, ImageAnswer(Some("image/png"), JPEG_SIG \o << 255 >>) } }
    \* the rest together
    \cup { Input(Args(p, o, k, r, "flash"), e, a) :
             p \in { <<>>, << "!", "-", "!" >> },
             o \in { None, Some(<< "d", "/", "o", ".", "j", "p", "g" >>), Some(<< "." >>) },
             k \in ArgKeys, e \in { None, Some(KEY2) },
             r \in { None, Some(<< "style.png", MISSING >>),
                     Some(Cycle(<< "photo.jpg" >>, MaxRefs)) },
             a \in FailedAnswers
                   \cup { GOOD_PNG,
                          Answer("json", Some(<< Candidate(<< TextPart("No") >>) >>)) } }

\* the clock readings int(time.time()) may give, as decimal text
Timestamps == { << "1", "7" >>, << "2", "0", "5" >> }

(***************************************************************************)
(* The state of a run.                                                     *)
(***************************************************************************)
VARIABLES
    args,               \* argparse's result: prompt, output, key, reference_images, model
    environ,            \* GEMINI_API_KEY, unset or set
    api,                \* what the API answers to a request
    pc,                 \* the place the run has reached
    api_key,            \* generate_image's api_key
    url,                \* generate_image's url, as the model id and the key in it
    reference_images,   \* generate_image's reference_images
    loaded,             \* how many entries the loop of generate_image has loaded
    parts,              \* generate_image's parts: the request's, then the response's
    result,             \* the parsed response
    image_bytes,        \* the decoded image
    mime_type,          \* its sniffed MIME type
    output_path,        \* main's output_path
    requests,           \* the requests sent over the network
    fs_dirs,            \* the directories the run has created
    fs_files,           \* the files the run has written
    stdout,             \* the lines on standard output
    stderr,             \* the lines on the error stream, by their fixed text
    failure,            \* the fatal condition the run ended in, "" while there is none
    exit_status         \* the exit status, once the process has ended

vars ==
    << args, environ, api, pc, api_key, url, reference_images, loaded, parts, result,
       image_bytes, mime_type, output_path, requests, fs_dirs, fs_files, stdout,
       stderr, failure, exit_status >>

inputs == << args, environ, api >>
locals == << api_key, url, reference_images, loaded, parts, result >>
image == << image_bytes, mime_type >>
effects == << requests, fs_dirs, fs_files, stdout >>

Init ==
    /\ \E in \in Inputs :
          /\ args = in.args
          /\ environ = in.environ
          /\ api = in.api
    /\ pc = "main"
    /\ api_key = None
    /\ url = None
    /\ reference_images = None
    /\ loaded = 0
    /\ parts = <<>>
    /\ result = None
    /\ image_bytes = None
    /\ mime_type = None
    /\ output_path = None
    /\ requests = <<>>
    /\ fs_dirs = {}
    /\ fs_files = {}
    /\ stdout = <<>>
    /\ stderr = <<>>
    /\ failure = ""
    /\ exit_status = None

\* sys.exit(1) after the lines msgs on the error stream, and an uncaught
\* exception, which ends the process with status 1 after its traceback
Die(kind, msgs) ==
    /\ stderr' = stderr \o msgs
    /\ failure' = kind
    /\ exit_status' = Some(1)
    /\ pc' = "done"

Goto(label) ==
    /\ pc' = label
    /\ UNCHANGED << failure, exit_status >>

\* a start that prepares the directory of the generated files
Banner_mkdir ==
    /\ pc = "main"
    /\ stderr' = stderr \o << "Generating image with", "Prompt:", "Aspect:" >>
                        \o IF Truthy(args.reference_images)
                           THEN << "Reference images:" >> ELSE <<>>
    /\ reference_images' = args.reference_images
    /\ api_key' = args.key
    /\ fs_dirs' = IF Truthy(args.output) THEN fs_dirs
                  ELSE { << "g", "e", "n", "e", "r", "a", "t", "e", "d" >> }
    /\ Goto("resolve_key")
    /\ UNCHANGED << inputs, url, loaded, parts, result, image, output_path, requests,
                    fs_files, stdout >>

\* main up to its call of generate_image
Banner ==
    /\ pc = "main"
    /\ stderr' = stderr \o << "Generating image with", "Prompt:", "Aspect:" >>
                        \o IF Truthy(args.reference_images)
                           THEN << "Reference images:" >> ELSE <<>>
    /\ reference_images' = args.reference_images
    /\ api_key' = args.key
    /\ Goto("resolve_key")
    /\ UNCHANGED << inputs, url, loaded, parts, result, image, output_path, effects >>

get_api_key == IF Truthy(environ) THEN environ[1] ELSE PLACEHOLDER

\* an override that is taken whenever --key is on the command line
ResolveKey_given ==
    /\ pc = "resolve_key"
    /\ api_key' = IF api_key = None THEN Some(get_api_key) ELSE api_key
    /\ Goto("check_key")
    /\ UNCHANGED << inputs, url, reference_images, loaded, parts, result, image,
                    output_path, effects, stderr >>

ResolveKey ==
    /\ pc = "resolve_key"
    /\ api_key' = IF ~Truthy(api_key) THEN Some(get_api_key) ELSE api_key
    /\ Goto("check_key")
    /\ UNCHANGED << inputs, url, reference_images, loaded, parts, result, image,
                    output_path, effects, stderr >>

KeyMissing ==
    /\ pc = "check_key"
    /\ api_key[1] = PLACEHOLDER \/ ~Truthy(api_key)
    /\ Die("key", << "Error: Gemini API key not found.",
                     "Please set the GEMINI_API_KEY environment variable:",
                     "  export GEMINI_API_KEY=your_key_here",
                     "Or edit scripts/generate_image.py" >>)
    /\ UNCHANGED << inputs, locals, image, output_path, effects >>

KeyFound ==
    /\ pc = "check_key"
    /\ ~(api_key[1] = PLACEHOLDER \/ ~Truthy(api_key))
    /\ url' = Some([ model_id |-> MODELS[args.model], key |-> api_key[1] ])
    /\ parts' = << TextPart(args.prompt) >>
    /\ Goto("references")
    /\ UNCHANGED << inputs, api_key, reference_images, loaded, result, image,
                    output_path, effects, stderr >>

WARN_REFS == "Warning: Maximum 14 reference images supported, using first 14"

\* a truncation that keeps the last entries
Truncate_last ==
    /\ pc = "references"
    /\ IF Truthy(reference_images)
       THEN /\ IF Len(reference_images[1]) > MaxReferenceImages
               THEN /\ stderr' = Append(stderr, WARN_REFS)
                    /\ reference_images' =
                         Some(SliceFrom(reference_images[1],
                                        Len(reference_images[1]) - MaxReferenceImages))
               ELSE UNCHANGED << stderr, reference_images >>
            /\ Goto("load")
       ELSE /\ Goto("request")
            /\ UNCHANGED << stderr, reference_images >>
    /\ UNCHANGED << inputs, api_key, url, loaded, parts, result, image, output_path,
                    effects >>

Truncate ==
    /\ pc = "references"
    /\ IF Truthy(reference_images)
       THEN /\ IF Len(reference_images[1]) > MaxReferenceImages
               THEN /\ stderr' = Append(stderr, WARN_REFS)
                    /\ reference_images' =
                         Some(Slice(reference_images[1], 0, MaxReferenceImages))
               ELSE UNCHANGED << stderr, reference_images >>
            /\ Goto("load")
       ELSE /\ Goto("request")
            /\ UNCHANGED << stderr, reference_images >>
    /\ UNCHANGED << inputs, api_key, url, loaded, parts, result, image, output_path,
                    effects >>

\* load_image_as_base64 on a file that exists: (base64_data, mime_type)
load_image_as_base64(image_path) ==
    << b64encode(DiskFiles[image_path]), detect_image_format(DiskFiles[image_path])[1] >>

\* the path the loop of generate_image is at
NextRef == reference_images[1][loaded + 1]

RefMissing ==
    /\ pc = "load"
    /\ NextRef \notin DOMAIN DiskFiles
    /\ Die("reference", << "Error: Reference image not found:" >>)
    /\ UNCHANGED << inputs, locals, image, output_path, effects >>

\* a loader that passes over a file it does not find
LoadRef_skip ==
    /\ pc = "load"
    /\ IF NextRef \in DOMAIN DiskFiles
       THEN /\ parts' = Append(parts, ImagePart(Some(load_image_as_base64(NextRef)[2]),
                                                load_image_as_base64(NextRef)[1]))
            /\ stderr' = Append(stderr, "Added reference image:")
       ELSE UNCHANGED << parts, stderr >>
    /\ loaded' = loaded + 1
    /\ Goto(IF loaded + 1 = Len(reference_images[1]) THEN "request" ELSE "load")
    /\ UNCHANGED << inputs, api_key, url, reference_images, result, image, output_path,
                    effects >>

LoadRef ==
    /\ pc = "load"
    /\ NextRef \in DOMAIN DiskFiles
    /\ parts' = Append(parts, ImagePart(Some(load_image_as_base64(NextRef)[2]),
                                        load_image_as_base64(NextRef)[1]))
    /\ stderr' = Append(stderr, "Added reference image:")
    /\ loaded' = loaded + 1
    /\ Goto(IF loaded + 1 = Len(reference_images[1]) THEN "request" ELSE "load")
    /\ UNCHANGED << inputs, api_key, url, reference_images, result, image, output_path,
                    effects >>

\* the payload, the POST and the wait for its answer
SendRequest ==
    /\ pc = "request"
    /\ requests' = Append(requests, [ url |-> url[1], method |-> "POST",
                                      parts |-> parts,
                                      responseModalities |-> << "TEXT", "IMAGE" >> ])
    /\ Goto("response")
    /\ UNCHANGED << inputs, locals, image, output_path, fs_dirs, fs_files, stdout,
                    stderr >>

\* urlopen raises HTTPError
HttpError ==
    /\ pc = "response"
    /\ api.kind = "http_error"
    /\ Die("http", << "API Error" >>)
    /\ UNCHANGED << inputs, locals, image, output_path, effects >>

\* urlopen raises URLError
NetworkError ==
    /\ pc = "response"
    /\ api.kind = "url_error"
    /\ Die("network", << "Network Error:" >>)
    /\ UNCHANGED << inputs, locals, image, output_path, effects >>

\* json.loads raises on a body that is not JSON; nothing catches it
MalformedResponse ==
    /\ pc = "response"
    /\ api.kind = "bad_json"
    /\ Die("malformed", << "Traceback" >>)
    /\ UNCHANGED << inputs, locals, image, output_path, effects >>

ParseResponse ==
    /\ pc = "response"
    /\ api.kind = "json"
    /\ result' = Some([ candidates |-> api.candidates ])
    /\ Goto("candidates")
    /\ UNCHANGED << inputs, api_key, url, reference_images, loaded, parts, image,
                    output_path, effects, stderr >>

\* result.get("candidates", [])
candidates == IF result[1].candidates = None THEN <<>> ELSE result[1].candidates[1]

NoCandidates ==
    /\ pc = "candidates"
    /\ candidates = <<>>
    /\ Die("candidates", << "Error: No candidates in response", "Response:" >>)
    /\ UNCHANGED << inputs, locals, image, output_path, effects >>

FirstCandidate ==
    /\ pc = "candidates"
    /\ candidates # <<>>
    /\ parts' = candidates[1].parts
    /\ Goto("parts")
    /\ UNCHANGED << inputs, api_key, url, reference_images, loaded, result, image,
                    output_path, effects, stderr >>

HasImage(part) == part.inlineData # None

\* the place of the last part with inline data
LastImageIndex_of(ps) ==
    CHOOSE i \in 1..Len(ps) :
        HasImage(ps[i]) /\ \A j \in (i + 1)..Len(ps) : ~HasImage(ps[j])

\* the place where the loop over the parts meets inline data
FirstImageIndex(ps) ==
    CHOOSE i \in 1..Len(ps) : HasImage(ps[i]) /\ \A j \in 1..(i - 1) : ~HasImage(ps[j])

\* inline_data.get("mimeType", "image/png")
reported_mime(inline_data) ==
    IF inline_data.mimeType = None THEN "image/png" ELSE inline_data.mimeType[1]

\* an extraction that takes the last image of the response
ExtractImage_last ==
    /\ pc = "parts"
    /\ \E i \in 1..Len(parts) : HasImage(parts[i])
    /\ LET inline_data == parts[LastImageIndex_of(parts)].inlineData[1]
           actual_mime == detect_image_format(b64decode(inline_data.data))[1]
       IN /\ B64Valid(inline_data.data)
          /\ image_bytes' = Some(b64decode(inline_data.data))
          /\ mime_type' = Some(actual_mime)
          /\ stderr' = IF actual_mime # reported_mime(inline_data)
                       THEN Append(stderr, "Note: API reported")
                       ELSE stderr
    /\ Goto("return")
    /\ UNCHANGED << inputs, locals, output_path, effects >>

\* the loop over the parts reaches inline data and returns
ExtractImage ==
    /\ pc = "parts"
    /\ \E i \in 1..Len(parts) : HasImage(parts[i])
    /\ LET inline_data == parts[FirstImageIndex(parts)].inlineData[1]
           actual_mime == detect_image_format(b64decode(inline_data.data))[1]
       IN /\ B64Valid(inline_data.data)
          /\ image_bytes' = Some(b64decode(inline_data.data))
          /\ mime_type' = Some(actual_mime)
          /\ stderr' = IF actual_mime # reported_mime(inline_data)
                       THEN Append(stderr, "Note: API reported")
                       ELSE stderr
    /\ Goto("return")
    /\ UNCHANGED << inputs, locals, output_path, effects >>

\* b64decode raises binascii.Error on the first inline data; nothing catches it
DecodeError ==
    /\ pc = "parts"
    /\ \E i \in 1..Len(parts) : HasImage(parts[i])
    /\ ~B64Valid(parts[FirstImageIndex(parts)].inlineData[1].data)
    /\ Die("decode", << "Traceback" >>)
    /\ UNCHANGED << inputs, locals, image, output_path, effects >>

\* an exit without a status after the error of a response without an image
NoImage_exit0 ==
    /\ pc = "parts"
    /\ \A i \in 1..Len(parts) : ~HasImage(parts[i])
    /\ stderr' = Append(stderr, "Error: No image data in response")
    /\ failure' = "image"
    /\ exit_status' = Some(0)
    /\ pc' = "done"
    /\ UNCHANGED << inputs, locals, image, output_path, effects >>

\* the loop ends without inline data: the text parts are shown, then the error
NoImage ==
    /\ pc = "parts"
    /\ \A i \in 1..Len(parts) : ~HasImage(parts[i])
    /\ Die("image", [ i \in 1..Len(SelectSeq(parts, LAMBDA q : q.text # None)) |->
                        "Model response (no image):" ]
                    \o << "Error: No image data in response" >>)
    /\ UNCHANGED << inputs, locals, image, output_path, effects >>

\* generate_image returns (image_bytes, actual_mime) to main; its other names end
Return ==
    /\ pc = "return"
    /\ api_key' = None
    /\ url' = None
    /\ reference_images' = None
    /\ loaded' = 0
    /\ parts' = <<>>
    /\ result' = None
    /\ Goto("output_path")
    /\ UNCHANGED << inputs, image, output_path, effects, stderr >>

\* Path(args.output), or generated/<slug>-<timestamp> at the clock reading ts
requested_path(ts) ==
    IF Truthy(args.output) THEN PathOf(args.output[1])
    ELSE PathJoin(PathOf(<< "g", "e", "n", "e", "r", "a", "t", "e", "d" >>),
                  Slug(args.prompt) \o << "-" >> \o ts)

NOTE_EXT == "Note: Using extension"

\* with_suffix raises ValueError on a path without a name; nothing catches it
NoFileName ==
    /\ pc = "output_path"
    /\ Truthy(args.output)
    /\ PathName(PathOf(args.output[1])) = <<>>
    /\ Die("name", << "Traceback" >>)
    /\ UNCHANGED << inputs, locals, image, output_path, effects >>

\* a path that keeps the extension the caller asked for
OutputPath_requested ==
    /\ pc = "output_path"
    /\ \E ts \in Timestamps :
          /\ PathName(requested_path(ts)) # <<>>
          /\ LET correct_ext == get_extension(mime_type[1])
                 final == IF PathSuffix(requested_path(ts)) = <<>>
                          THEN with_suffix(requested_path(ts), correct_ext)
                          ELSE requested_path(ts)
             IN /\ output_path' = Some(final)
                /\ stderr' = IF args.output # Some(PathStr(final))
                             THEN Append(stderr, NOTE_EXT)
                             ELSE stderr
    /\ Goto("mkdir")
    /\ UNCHANGED << inputs, locals, image, effects >>

\* lines 288-306 of main
OutputPath ==
    /\ pc = "output_path"
    /\ \E ts \in Timestamps :
          /\ PathName(requested_path(ts)) # <<>>
          /\ LET correct_ext == get_extension(mime_type[1])
                 final == with_suffix(requested_path(ts), correct_ext)
             IN /\ output_path' = Some(final)
                /\ stderr' = IF args.output # Some(PathStr(final))
                             THEN Append(stderr, NOTE_EXT)
                             ELSE stderr
    /\ Goto("mkdir")
    /\ UNCHANGED << inputs, locals, image, effects >>

\* output_path.parent.mkdir(parents=True, exist_ok=True)
MakeParents ==
    /\ pc = "mkdir"
    /\ fs_dirs' = fs_dirs \cup MkdirTargets(PathParent(output_path[1]))
    /\ Goto("write")
    /\ UNCHANGED << inputs, locals, image, output_path, requests, fs_files, stdout,
                    stderr >>

\* output_path.write_bytes(image_bytes)
WriteImage ==
    /\ pc = "write"
    /\ fs_files' = fs_files \cup { [ path |-> PathStr(output_path[1]),
                                      data |-> image_bytes[1] ] }
    /\ Goto("print")
    /\ UNCHANGED << inputs, locals, image, output_path, requests, fs_dirs, stdout,
                    stderr >>

\* the two closing prints of main
PrintPath ==
    /\ pc = "print"
    /\ stderr' = Append(stderr, "Image saved:")
    /\ stdout' = Append(stdout, PathStr(output_path[1]))
    /\ Goto("exit")
    /\ UNCHANGED << inputs, locals, image, output_path, requests, fs_dirs, fs_files >>

\* main returns and the interpreter exits with status 0
ExitOk ==
    /\ pc = "exit"
    /\ exit_status' = Some(0)
    /\ pc' = "done"
    /\ UNCHANGED << inputs, locals, image, output_path, effects, stderr, failure >>

Next ==
    \/ Banner
    \/ ResolveKey
    \/ KeyMissing
    \/ KeyFound
    \/ Truncate
    \/ RefMissing
    \/ LoadRef
    \/ SendRequest
    \/ HttpError
    \/ NetworkError
    \/ MalformedResponse
    \/ ParseResponse
    \/ NoCandidates
    \/ FirstCandidate
    \/ ExtractImage
    \/ DecodeError
    \/ NoImage
    \/ Return
    \/ NoFileName
    \/ OutputPath
    \/ MakeParents
    \/ WriteImage
    \/ PrintPath
    \/ ExitOk

Spec == Init /\ [][Next]_vars

(***************************************************************************)
(* What the claims speak of, said from the inputs of the run.              *)
(***************************************************************************)
\* b begins with sig
StartsWith(b, sig) ==
    Len(b) >= Len(sig) /\ \A i \in 1..Len(sig) : b[i] = sig[i]

\* sig stands in b at the 0-based offset off
HasAt(b, off, sig) ==
    Len(b) >= off + Len(sig) /\ \A i \in 1..Len(sig) : b[off + i] = sig[i]

\* the format the signatures give a buffer
ExpectedFormat(b) ==
    CASE StartsWith(b, PNG_SIG) -> << "image/png", EXT_PNG >>
      [] StartsWith(b, JPEG_SIG) -> << "image/jpeg", EXT_JPG >>
      [] HasAt(b, 0, RIFF_SIG) /\ HasAt(b, 8, WEBP_SIG) -> << "image/webp", EXT_WEBP >>
      [] StartsWith(b, GIF87_SIG) \/ StartsWith(b, GIF89_SIG) -> << "image/gif", EXT_GIF >>
      [] OTHER -> << "image/png", EXT_PNG >>

\* the text of a file name from its last dot on
TextExtension(t) ==
    IF \E i \in 1..Len(t) : t[i] = "."
    THEN LET last == CHOOSE i \in 1..Len(t) :
                        t[i] = "." /\ \A j \in (i + 1)..Len(t) : t[j] # "."
         IN SubSeq(t, last, Len(t))
    ELSE <<>>

\* the number of --ref paths, and how many of them are to be loaded
RefCount == IF args.reference_images = None THEN 0 ELSE Len(args.reference_images[1])
RefsToLoad == Min(RefCount, MaxReferenceImages)
SomeRefMissing ==
    \E i \in 1..RefsToLoad : args.reference_images[1][i] \notin DOMAIN DiskFiles

\* the image part of a reference file
RefPart(path) ==
    ImagePart(Some(ExpectedFormat(DiskFiles[path])[1]), b64encode(DiskFiles[path]))

\* the key by the order --key when given, then the environment, then the placeholder
KeyWhenGiven ==
    IF args.key # None THEN args.key[1]
    ELSE IF environ # None /\ environ[1] # <<>> THEN environ[1]
    ELSE PLACEHOLDER

\* the same order with an empty --key counted as not given
KeyWhenNonEmpty ==
    IF args.key # None /\ args.key[1] # <<>> THEN args.key[1]
    ELSE IF environ # None /\ environ[1] # <<>> THEN environ[1]
    ELSE PLACEHOLDER

Unusable(key) == key = PLACEHOLDER \/ key = <<>>

\* the parts of the first candidate of the answer, when it has one
AnswerParts ==
    IF api.kind = "json" /\ api.candidates # None /\ api.candidates[1] # <<>>
    THEN api.candidates[1][1].parts
    ELSE <<>>
AnswerHasImage == \E i \in 1..Len(AnswerParts) : AnswerParts[i].inlineData # None
\* the inline data of the earliest part of the answer that has any
AnswerImage ==
    LET k == CHOOSE k \in 1..Len(AnswerParts) :
                /\ AnswerParts[k].inlineData # None
                /\ \A j \in 1..(k - 1) : AnswerParts[j].inlineData = None
    IN AnswerParts[k].inlineData[1]

\* one of the fatal conditions is met in this run: no usable key, a missing
\* reference image, an HTTP or network error, no candidates, no image part
FatalCondition ==
    \/ Unusable(KeyWhenNonEmpty)
    \/ SomeRefMissing
    \/ api.kind \in { "http_error", "url_error" }
    \/ api.kind = "json" /\ (api.candidates = None \/ api.candidates[1] = <<>>)
    \/ api.kind = "json" /\ ~AnswerHasImage

Ended == pc = "done"
EndedNonZero == pc = "done" /\ exit_status # None /\ exit_status[1] # 0

(***************************************************************************)
(* The claims.                                                             *)
(***************************************************************************)

\* C1: every file the run writes has, as the extension of its path, the
\* extension detect_image_format gives the written bytes, whatever --output
\* was (any extension, none, or no --output) and whatever MIME type the API
\* reported.
C1_WrittenExtensionIsSniffed ==
    \A f \in fs_files : TextExtension(f.path) = detect_image_format(f.data)[2]

\* C1 witness: a file is written under a requested path whose extension is
\* not the one of the bytes, and the API reported another type than the bytes have.
C1_Witness ==
    /\ fs_files # {}
    /\ Truthy(args.output)
    /\ TextExtension(args.output[1]) \notin { <<>>, ExpectedFormat(image_bytes[1])[2] }
    /\ AnswerImage.mimeType # Some(mime_type[1])

\* C2: a run in which a fatal condition is met writes nothing to standard
\* output and ends, when it ends, with a non-zero status; the step that
\* reports a fatal condition is the exit with that status; the path is on
\* standard output only in a run that goes on to end with status 0.
C2_FatalExitsNonZeroSilently ==
    /\ FatalCondition => stdout = <<>> /\ (Ended => EndedNonZero)
    /\ failure # "" => EndedNonZero /\ stdout = <<>>
    /\ stdout # <<>> => /\ pc \in { "exit", "done" }
                        /\ Ended => exit_status = Some(0)

\* C2 witness: the run has sent its request, got an HTTP error and ended with status 1.
C2_Witness ==
    /\ Ended
    /\ api.kind = "http_error"
    /\ requests # <<>>
    /\ exit_status = Some(1)

\* C3: when one of the reference images to be loaded is missing, no request
\* is ever sent and the run ends with a non-zero status; a request that is
\* sent is the only one, and carries every reference image to be loaded.
C3_MissingReferenceBeforeNetwork ==
    /\ SomeRefMissing => requests = <<>> /\ (Ended => EndedNonZero)
    /\ Len(requests) <= 1
    /\ \A k \in 1..Len(requests) :
          Len(SelectSeq(requests[k].parts, HasImage)) = RefsToLoad

\* C3 witness: with a usable key, the run ended on a missing reference image
\* after it had loaded others.
C3_Witness ==
    /\ Ended
    /\ failure = "reference"
    /\ loaded > 0
    /\ requests = <<>>

\* C4 as stated: the key is --key when given, else the environment variable
\* when set and non-empty, else the placeholder; ending on the placeholder or
\* on no key is a fatal configuration error and no request is sent, and no
\* other resolution is.
C4_KeyWhenGiven ==
    /\ url # None => url[1].key = KeyWhenGiven
    /\ ~Unusable(KeyWhenGiven) => failure # "key"
    /\ \A k \in 1..Len(requests) : requests[k].url.key = KeyWhenGiven
    /\ Unusable(KeyWhenGiven) =>
          /\ requests = <<>>
          /\ Ended => failure = "key" /\ EndedNonZero

\* C4 amended: the key is --key when given and non-empty, else the
\* environment variable when set and non-empty, else the placeholder; ending
\* on the placeholder is a fatal configuration error and no request is sent,
\* and no other resolution is.
C4_KeyWhenNonEmpty ==
    /\ url # None => url[1].key = KeyWhenNonEmpty
    /\ ~Unusable(KeyWhenNonEmpty) => failure # "key"
    /\ \A k \in 1..Len(requests) : requests[k].url.key = KeyWhenNonEmpty
    /\ Unusable(KeyWhenNonEmpty) =>
          /\ requests = <<>>
          /\ Ended => failure = "key" /\ EndedNonZero

\* C4 witness: --key is given but empty, and the request went out with the
\* key of the environment.
C4_Witness ==
    /\ args.key = Some(<<>>)
    /\ requests # <<>>
    /\ requests[1].url.key = KEY2

\* C5: the parts of the request are the prompt text and then one image part
\* for each of the first min(n, 14) reference paths, in their order; there are
\* never more than 14 image parts; the warning is on the error stream exactly
\* when n > 14, once the run has come to its reference images.
C5_RequestParts ==
    /\ \A k \in 1..Len(requests) :
          requests[k].parts =
              << TextPart(args.prompt) >>
              \o [ i \in 1..RefsToLoad |-> RefPart(args.reference_images[1][i]) ]
    /\ pc \in { "references", "load", "request" } =>
          /\ loaded <= RefsToLoad
          /\ parts = << TextPart(args.prompt) >>
                     \o [ i \in 1..loaded |-> RefPart(args.reference_images[1][i]) ]
    /\ Len(SelectSeq(stderr, LAMBDA m : m = WARN_REFS))
          = IF RefCount > MaxReferenceImages
               /\ pc \notin { "main", "resolve_key", "check_key", "references" }
               /\ failure # "key"
            THEN 1 ELSE 0

\* C5 witness: a request was sent for a list of more than 14 paths, not all the same.
C5_Witness ==
    /\ requests # <<>>
    /\ RefCount > MaxReferenceImages
    /\ args.reference_images[1][1] # args.reference_images[1][2]

\* C6: for every buffer the sniffer is applied to, the empty and the short
\* ones too, it gives PNG for the 8-byte PNG signature, JPEG for FF D8, WEBP
\* for RIFF at 0 with WEBP at 8, GIF for GIF87a or GIF89a, and PNG otherwise.
C6_SnifferBySignature ==
    image_bytes # None =>
        /\ detect_image_format(image_bytes[1]) = ExpectedFormat(image_bytes[1])
        /\ mime_type = Some(ExpectedFormat(image_bytes[1])[1])

\* C6 witness: the sniffer has seen a RIFF container that is not WEBP.
C6_Witness ==
    /\ image_bytes # None
    /\ HasAt(image_bytes[1], 0, RIFF_SIG)
    /\ Len(image_bytes[1]) >= 12
    /\ ~HasAt(image_bytes[1], 8, WEBP_SIG)

\* the file name main makes up for the slug "untitled"
IsUntitledPath ==
    \E ts \in Timestamps :
        PathStr(output_path[1]) =
            << "g", "e", "n", "e", "r", "a", "t", "e", "d", "/" >>
            \o UNTITLED \o << "-" >> \o ts \o ExpectedFormat(image_bytes[1])[2]

\* C7 as stated: without --output, a prompt with no letter and no digit in it
\* (punctuation, whitespace, hyphens, underscores) gives the file
\* generated/untitled-<timestamp> with the sniffed extension.
C7_SymbolOnlyUntitled ==
    /\ output_path # None
    /\ ~Truthy(args.output)
    /\ \A i \in 1..Len(args.prompt) :
          ~IsLetter(args.prompt[i]) /\ args.prompt[i] \notin Digits
    => IsUntitledPath

\* C7 amended: without --output, a prompt that is empty or holds only
\* whitespace and characters that are neither letters, digits, underscores nor
\* hyphens gives the file generated/untitled-<timestamp> with the sniffed
\* extension.
C7_StrippedUntitled ==
    /\ output_path # None
    /\ ~Truthy(args.output)
    /\ \A i \in 1..Len(args.prompt) :
          /\ ~IsLetter(args.prompt[i])
          /\ args.prompt[i] \notin Digits \cup { "_", "-" }
    => IsUntitledPath

\* C7 witness: the path was made up for a prompt of punctuation and whitespace.
C7_Witness ==
    /\ output_path # None
    /\ args.output = None
    /\ args.prompt = << "!", " ", "!" >>

\* C8: the bytes generate_image returns, and the bytes written later, are the
\* base64 decoding of the first part of the first candidate that has inline
\* data; the MIME type is the sniffed one; the note is on the error stream
\* exactly when the reported type is another.
C8_FirstImagePart ==
    /\ image_bytes # None =>
          /\ AnswerHasImage
          /\ B64Valid(AnswerImage.data)
          /\ image_bytes = Some(b64decode(AnswerImage.data))
          /\ mime_type = Some(ExpectedFormat(image_bytes[1])[1])
          /\ ("Note: API reported" \in { stderr[i] : i \in 1..Len(stderr) })
                <=> (mime_type # (IF AnswerImage.mimeType = None
                                  THEN Some("image/png") ELSE AnswerImage.mimeType))
    /\ \A f \in fs_files : f.data = b64decode(AnswerImage.data)

\* C8 witness: a file was written from an answer that has a text part, then
\* an image reported with another type than it has, then a different image.
C8_Witness ==
    /\ fs_files # {}
    /\ Len(AnswerParts) = 3
    /\ AnswerParts[1].inlineData = None
    /\ AnswerParts[2].inlineData # None
    /\ AnswerParts[3].inlineData # None
    /\ AnswerParts[2] # AnswerParts[3]
    /\ AnswerParts[2].inlineData[1].mimeType # Some(mime_type[1])

\* C9: with --output given, the extension note is on the error stream when
\* the final extension differs from the requested one, and is not there when
\* the requested path already has the extension of the sniffed format,
\* however the path is spelled.
C9_NoteOnlyOnChange ==
    output_path # None /\ Truthy(args.output) =>
        LET requested == PathSuffix(PathOf(args.output[1]))
            noted == NOTE_EXT \in { stderr[i] : i \in 1..Len(stderr) }
        IN /\ PathSuffix(output_path[1]) # requested => noted
           /\ requested = ExpectedFormat(image_bytes[1])[2] => ~noted

\* C10: a run that meets a fatal condition, or ends with a non-zero status,
\* has written no file and created no directory; the file system changes only
\* after the image has come back; the file is written after its parent
\* directories are made, and the path is printed after the file is written.
C10_FileSystemOnlyOnSuccess ==
    /\ FatalCondition \/ EndedNonZero => fs_files = {} /\ fs_dirs = {}
    /\ fs_files # {} \/ fs_dirs # {} =>
          /\ requests # <<>>
          /\ image_bytes # None
          /\ MkdirTargets(PathParent(output_path[1])) = fs_dirs
    /\ stdout # <<>> =>
          /\ fs_files = { [ path |-> stdout[1], data |-> image_bytes[1] ] }
          /\ stdout = << PathStr(output_path[1]) >>

\* C10 witness: the path has been printed in a run that had to make a directory.
C10_Witness ==
    /\ stdout # <<>>
    /\ fs_dirs # {}
    /\ fs_files # {}

====
